---------------------------- MODULE Spec2Model ----------------------------
(* pgsac: extraction of a PostgreSQL catalog through psql (pkg/schema)      *)
(* and export of the extracted model to a file tree (pkg/exporter).        *)
(*                                                                         *)
(* A string of the program is a Text: a sequence of tokens. A token is a   *)
(* whitespace character, a punctuation mark, or an indivisible word.       *)
EXTENDS Naturals, Sequences, FiniteSets, TLC

VARIABLES
    schemaNames,  \* argument of ExtractSchemas
    pc,           \* position of the extract command
    si,           \* index of the schema being extracted (range loop)
    cat,          \* category whose extract function is running
    lines,        \* listing lines the running extract function has not read yet
    objects,      \* `objects` of the running extract function
    functions,    \* `functions` of extractFunctions (regular functions)
    schema,       \* `schema` of ExtractSchemas: the Schema being assembled
    schemas,      \* `schemas` of ExtractSchemas
    result,       \* what ExtractSchemas returned: [schemas, err]
    issued,       \* history: every psql command issued, in order
    last,         \* history: the listing line the latest loop iteration read
    fs,           \* the output directory: [dirs, files]
    ei,           \* index of the schema being exported (range loop of Export)
    todo,         \* keys of objectsByType the range loop has not visited yet
    group,        \* objects of the current type the inner loop has not written yet
    typeDir,      \* `typeDir` of exportSchema
    exportErr,    \* what Export returned
    runs,         \* number of calls of Export so far
    before,       \* history: the output directory when the current Export began
    written       \* history: the files the current Export wrote to the end, with
                  \* the contents it gave them

xvars == <<schemaNames, si, cat, lines, objects, functions, schema, schemas,
           result, issued, last>>

evars == <<fs, ei, todo, group, typeDir, exportErr, runs, before, written>>

vars == <<schemaNames, pc, si, cat, lines, objects, functions, schema, schemas,
          result, issued, last, fs, ei, todo, group, typeDir, exportErr, runs,
          before, written>>

---------------------------------------------------------------------------
(* Bounds of the model *)

MaxSchemas == 2
MaxRows == 2
MaxRuns == 2

---------------------------------------------------------------------------
(* Texts *)

\* a nil slice, a nil error
Nil == <<>>

Space == {" ", "\n", "\t"}

RECURSIVE TrimLeft(_)
TrimLeft(t) == IF t # <<>> /\ Head(t) \in Space THEN TrimLeft(Tail(t)) ELSE t

RECURSIVE TrimRight(_)
TrimRight(t) ==
    IF t # <<>> /\ t[Len(t)] \in Space THEN TrimRight(SubSeq(t, 1, Len(t) - 1)) ELSE t

\* strings.TrimSpace
TrimSpace(t) == TrimRight(TrimLeft(t))

\* strings.Contains
Contains(t, sub) ==
    \E i \in 1..(Len(t) + 1) :
        i + Len(sub) - 1 <= Len(t) /\ SubSeq(t, i, i + Len(sub) - 1) = sub

RECURSIVE Flatten(_)
Flatten(ss) == IF ss = <<>> THEN <<>> ELSE Head(ss) \o Flatten(Tail(ss))

---------------------------------------------------------------------------
(* Data model: pkg/schema types *)

TableType == "table"
ViewType == "view"
MaterializedView == "materialized_view"
FunctionType == "function"

ObjectTypes == <<TableType, ViewType, MaterializedView, FunctionType>>

Object(schemaName, name, type, definition) ==
    [Schema |-> schemaName, Name |-> name, Type |-> type, Definition |-> definition]

Schema(name) == [Name |-> name, Objects |-> <<>>]

---------------------------------------------------------------------------
(* The five extract functions differ in these parameters only *)

Categories == <<"table", "view", "matview", "func", "agg">>

ListVerb(c) ==
    CASE c = "table" -> "\\dt+ "
      [] c = "view" -> "\\dv+ "
      [] c = "matview" -> "\\dm+ "
      [] c = "func" -> "\\df+ "
      [] c = "agg" -> "\\da+ "

\* the smallest field count a listing line must have to be read
\* a parser that asks only for the namespace and name columns
MinFieldsNameOnly(c) == 2

MinFields(c) ==
    CASE c \in {"table", "view", "matview"} -> 6
      [] c = "func" -> 12
      [] c = "agg" -> 4

ObjType(c) ==
    CASE c = "table" -> TableType
      [] c = "view" -> ViewType
      [] c = "matview" -> MaterializedView
      [] c \in {"func", "agg"} -> FunctionType

\* wording of the category in the error texts
ListNoun(c) ==
    CASE c = "table" -> "tables"
      [] c = "view" -> "views"
      [] c = "matview" -> "materialized views"
      [] c = "func" -> "functions"
      [] c = "agg" -> "aggregate functions"

DefNoun(c) ==
    CASE c = "table" -> "table"
      [] c = "view" -> "view"
      [] c = "matview" -> "materialized view"
      [] c = "func" -> "function"
      [] c = "agg" -> "aggregate function"

\* wording used by ExtractSchemas, which sees regular and aggregate
\* functions through extractFunctions
ExtractNoun(c) == IF c = "agg" THEN "functions" ELSE ListNoun(c)

---------------------------------------------------------------------------
(* Commands: fmt.Sprintf of the command texts *)

ListCmd(c, schemaName) == <<ListVerb(c), schemaName, ".*">>

\* \d+ schema.name, for tables, views and materialized views
DescribeCmd(schemaName, name) == <<"\\d+ ", schemaName, ".">> \o name

SfCmdNoArgs(schemaName, funcName, argTypes) == <<"\\sf ", schemaName, ".">> \o funcName

\* \sf schema.name(argTypes)
SfCmd(schemaName, funcName, argTypes) ==
    <<"\\sf ", schemaName, ".">> \o funcName \o <<"(">> \o argTypes \o <<")">>

\* strings.Split(argTypes, ","): the pieces between the "," tokens
RECURSIVE SplitComma(_)
SplitComma(t) ==
    IF \A i \in 1..Len(t) : t[i] # ","
    THEN <<t>>
    ELSE LET k == CHOOSE i \in 1..Len(t) : t[i] = "," /\ \A j \in 1..(i - 1) : t[j] # ","
         IN <<SubSeq(t, 1, k - 1)>> \o SplitComma(SubSeq(t, k + 1, Len(t)))

RECURSIVE JoinComma(_)
JoinComma(ts) ==
    IF ts = <<>> THEN <<>>
    ELSE IF Len(ts) = 1 THEN ts[1]
    ELSE ts[1] \o <<",">> \o JoinComma(Tail(ts))

formatArgTypesForSQL(argTypes) ==
    IF argTypes = <<>> THEN <<>>
    ELSE LET types == SplitComma(argTypes)
         IN JoinComma([i \in 1..Len(types) |-> <<"'">> \o TrimSpace(types[i]) \o <<"'">>])

AggregateCmd(schemaName, funcName, argTypes) ==
    <<"SELECT pg_get_functiondef(p.oid) FROM pg_proc p JOIN pg_namespace n ON p.pronamespace = n.oid WHERE n.nspname = '",
      schemaName, "' AND p.proname = '">> \o funcName
      \o <<"' AND p.proargtypes::regtype[] = ARRAY[">>
      \o formatArgTypesForSQL(argTypes) \o <<"]::regtype[]">>

DefCmd(c, schemaName, name, argTypes) ==
    CASE c \in {"table", "view", "matview"} -> DescribeCmd(schemaName, name)
      [] c = "func" -> SfCmd(schemaName, name, argTypes)
      [] c = "agg" -> AggregateCmd(schemaName, name, argTypes)

---------------------------------------------------------------------------
(* Errors: an error is the sequence of its layers, outermost first; each   *)
(* layer is the text that fmt.Errorf puts before the error it wraps (%w),  *)
(* the last layer is the root cause.                                       *)

ExitError == <<"exit status 1">>

\* execPsql: "psql error: %w\nstderr: %s"
psqlError == << <<"psql error: ">>, ExitError >>

WrapListing(c, err) == << <<"error listing ", ListNoun(c), ": ">> >> \o err

WrapDefinition(c, name, argTypes, err) ==
    IF c \in {"func", "agg"}
    THEN << <<"error getting ", DefNoun(c), " definition for ">> \o name
              \o <<"(">> \o argTypes \o <<")", ": ">> >> \o err
    ELSE << <<"error getting ", DefNoun(c), " definition for ">> \o name \o <<": ">> >> \o err

WrapExtractNoSchema(c, schemaName, err) ==
    << <<"error extracting ", ExtractNoun(c), ": ">> >> \o err

WrapExtract(c, schemaName, err) ==
    << <<"error extracting ", ExtractNoun(c), " from schema ", schemaName, ": ">> >> \o err

\* err.Error(): the message of the whole chain
Message(err) == Flatten(err)

---------------------------------------------------------------------------
(* The catalog as psql shows it. A listing line is the sequence of its     *)
(* "|"-separated fields, each a Text; the empty line has one empty field.  *)

SchemaNames == {"app", "pg_catalog", "information_schema"}

\* the lists of schema names a caller passes: up to MaxSchemas names, each once
SchemaLists ==
    { names \in UNION { [1..n -> SchemaNames] : n \in 1..MaxSchemas } :
        \A i, j \in 1..Len(names) : i # j => names[i] # names[j] }

BlankLine == << <<>> >>

Line(n, ns, name, argCol, argTypes, kindCol, kind) ==
    [i \in 1..n |->
        IF i = 1 THEN <<ns>>
        ELSE IF i = 2 THEN name
        ELSE IF i = argCol THEN argTypes
        ELSE IF i = kindCol THEN <<kind>>
        ELSE <<"-">>]

\* \dt+, \dv+, \dm+: Schema|Name|Type|Owner|Persistence|Size|Description
RelLine(n, ns, name) == Line(n, ns, name, 0, <<>>, 0, "")

\* \df+: Schema|Name|Result|Argument data types|Type|... (12 columns and more)
FuncLine(n, ns, name, argTypes, kind) == Line(n, ns, name, 4, argTypes, 5, kind)

\* \da+: the code reads the argument types in the third column
AggLine(n, ns, name, argTypes) == Line(n, ns, name, 3, argTypes, 0, "")

\* the rows of a category in the order psql lists them (by name, then by
\* argument types), with the lines a listing may also hold: too short, empty,
\* of another namespace
CatalogLines(c, s) ==
    CASE c \in {"table", "view", "matview"} ->
            << RelLine(5, s, <<"a">>),
               RelLine(7, s, <<"a">>),
               BlankLine,
               RelLine(6, s, <<" ", "b", " ">>),
               RelLine(7, "information_schema", <<"b">>) >>
      [] c = "func" ->
            << FuncLine(12, s, <<"a">>, <<"numeric">>, "agg"),
               FuncLine(11, s, <<"f">>, <<"integer">>, "func"),
               FuncLine(12, s, <<"f">>, <<"integer">>, "func"),
               FuncLine(12, "information_schema", <<"f">>, <<"integer">>, "func"),
               FuncLine(13, s, <<"f">>, <<"text", ",", " ", "integer">>, "func") >>
      [] c = "agg" ->
            << AggLine(3, s, <<"a">>, <<"numeric">>),
               AggLine(5, s, <<"a">>, <<"numeric">>),
               AggLine(4, "information_schema", <<"a">>, <<"numeric">>) >>

\* alphabetical rank of the object names the catalog holds
NameRank(name) ==
    CASE name = <<"a">> -> 1
      [] name = <<"b">> -> 2
      [] name = <<"f">> -> 3
      [] OTHER -> 0

LineRank(line) == IF Len(line) >= 2 THEN NameRank(TrimSpace(line[2])) ELSE 0

\* psql lists a category's rows in alphabetical order by name
Alphabetical(out) ==
    \A i, j \in 1..Len(out) :
        (i < j /\ Len(out[i]) >= 2 /\ Len(out[j]) >= 2) => LineRank(out[i]) <= LineRank(out[j])

\* the lines of `all` at the positions in `keep`, in order
RECURSIVE Pick(_, _, _)
Pick(all, keep, i) ==
    IF i > Len(all) THEN <<>>
    ELSE (IF i \in keep THEN <<all[i]>> ELSE <<>>) \o Pick(all, keep, i + 1)

\* a listing prints any k or fewer of the catalog's lines, in listing order
ListingOutputs(c, s, k) ==
    { out \in { Pick(CatalogLines(c, s), keep, 1) :
                    keep \in { I \in SUBSET (1..Len(CatalogLines(c, s))) : Cardinality(I) <= k } } :
        Alphabetical(out) }

\* what psql prints for a definition command that succeeds: the text names
\* the object the command names; a view's text ends with its own ";"
PsqlDefinition(c, cmd) ==
    CASE c = "table" -> <<" ", "Table ">> \o Tail(cmd) \o <<"\n">>
      [] c \in {"view", "matview"} ->
            <<" ", "View definition: ">> \o Tail(cmd) \o <<";", "\n">>
      [] c = "func" -> <<"CREATE OR REPLACE FUNCTION ">> \o Tail(cmd) \o <<"\n">>
      [] c = "agg" -> <<" ", "CREATE OR REPLACE AGGREGATE ">> \o Tail(cmd) \o <<"\n">>

\* what a definition command that exits with status 0 may print: the
\* definition, or, for the SELECT of the aggregate path, nothing at all when
\* no row of pg_proc matches (--tuples-only prints rows only)
DefinitionOutputs(c, cmd) ==
    {PsqlDefinition(c, cmd)} \cup (IF c = "agg" THEN {<<>>} ELSE {})

---------------------------------------------------------------------------
(* Parsing of a listing *)

RECURSIVE DropBlankHead(_)
DropBlankHead(out) ==
    IF out # <<>> /\ Head(out) = BlankLine THEN DropBlankHead(Tail(out)) ELSE out

RECURSIVE DropBlankTail(_)
DropBlankTail(out) ==
    IF out # <<>> /\ out[Len(out)] = BlankLine
    THEN DropBlankTail(SubSeq(out, 1, Len(out) - 1))
    ELSE out

\* strings.Split(strings.TrimSpace(list), "\n")
SplitLines(out) ==
    LET t == DropBlankTail(DropBlankHead(out))
    IN IF t = <<>> THEN <<BlankLine>> ELSE t

IsSystemSchemaCatalogOnly(ns) == ns = <<"pg_catalog">>

IsSystemSchema(ns) == ns = <<"pg_catalog">> \/ ns = <<"information_schema">>

\* the `continue` conditions of a loop body, in the order of the code
\* the regular path without its test of the kind column
SkippedWhateverKind(c, line) ==
    \/ line = BlankLine
    \/ Len(line) < MinFields(c)
    \/ IsSystemSchema(TrimSpace(line[1]))

Skipped(c, line) ==
    \/ line = BlankLine
    \/ Len(line) < MinFields(c)
    \/ IsSystemSchema(TrimSpace(line[1]))
    \/ c = "func" /\ TrimSpace(line[5]) # <<"func">>

LineName(line) == TrimSpace(line[2])

LineArgTypes(c, line) ==
    CASE c = "func" -> TrimSpace(line[4])
      [] c = "agg" -> TrimSpace(line[3])
      [] OTHER -> <<>>

---------------------------------------------------------------------------
(* The output directory. A path is the sequence of its components below    *)
(* baseDir; a file name is a Text.                                         *)

EmptyTree == [dirs |-> {}, files |-> << >>]

\* a tree left by an earlier run: one file of an object since dropped, one
\* file of an object that may still exist
StaleTree ==
    [dirs |-> {<<"app">>, <<"app", TableType>>},
     files |-> (<<"app", TableType, <<"old", ".sql">>>> :> <<"old", ";", "\n">>)
                @@ (<<"app", TableType, <<"a", ".sql">>>> :> <<"old", ";", "\n">>)]

InitialTrees == {EmptyTree, StaleTree}

Prefixes(path) == { SubSeq(path, 1, n) : n \in 1..Len(path) }

Under(dir, path) == Len(path) > Len(dir) /\ SubSeq(path, 1, Len(dir)) = dir

RemoveAllThenMkdir(tree, dir) ==
    [dirs |-> { d \in tree.dirs : ~Under(dir, d) } \cup Prefixes(dir),
     files |-> [p \in { q \in DOMAIN tree.files : ~Under(dir, q) } |-> tree.files[p]]]

\* os.MkdirAll: the directory and its parents exist afterwards, nothing else changes
MkdirAll(tree, dir) == [tree EXCEPT !.dirs = @ \cup Prefixes(dir)]

OpenAppend(tree, path) ==
    IF path \in DOMAIN tree.files THEN tree
    ELSE [tree EXCEPT !.files = (path :> <<>>) @@ @]

\* os.Create: the file exists and is empty afterwards
Create(tree, path) == [tree EXCEPT !.files = (path :> <<>>) @@ @]

\* f.WriteString
WriteString(tree, path, text) == [tree EXCEPT !.files[path] = @ \o text]

---------------------------------------------------------------------------
(* Export *)

\* objectsByType[t], in the order of s.Objects
ObjectsByType(s, t) == SelectSeq(s.Objects, LAMBDA o : o.Type = t)

TypesOf(s) == { s.Objects[i].Type : i \in 1..Len(s.Objects) }

\* filepath.Join(e.baseDir, s.Name)
SchemaDir(s) == <<s.Name>>

\* one directory for the objects of every type of the schema
TypeDirFlat(s, t) == <<s.Name, "objects">>

\* filepath.Join(schemaDir, string(objType))
TypeDir(s, t) == <<s.Name, t>>

\* fmt.Sprintf("%s.sql", obj.Name)
FileName(obj) == obj.Name \o <<".sql">>

\* filepath.Join(typeDir, fileName)
FilePath(dir, obj) == Append(dir, FileName(obj))

Header(obj) ==
    <<"-- Object: ", obj.Schema, ".">> \o obj.Name \o <<"\n", "-- Type: ", obj.Type, "\n", "\n">>

Definition(obj) == TrimSpace(obj.Definition) \o <<";", "\n">>

Model == result.schemas

IOError == <<"permission denied">>

ExportFail(err) ==
    /\ exportErr' = << <<"error exporting schema ", Model[ei].Name, ": ">> >> \o err
    /\ pc' = "exportFailed"

\* what the loops of Export and exportSchema do next, once the inner loop
\* has `rest` left and the range over the map has `keys` left
Advance(rest, keys) ==
    IF rest # <<>> THEN pc' = "exportObject" /\ UNCHANGED <<ei, exportErr>>
    ELSE IF keys # {} THEN pc' = "exportType" /\ UNCHANGED <<ei, exportErr>>
    ELSE IF ei < Len(Model) THEN pc' = "exportSchema" /\ ei' = ei + 1 /\ UNCHANGED exportErr
    ELSE pc' = "exported" /\ exportErr' = Nil /\ UNCHANGED ei

\* a command that goes on to Export whatever ExtractSchemas returned
ExportReachedWhateverErr == pc \in {"extracted", "failed"}

\* extractCmd.RunE returns when ExtractSchemas returned an error and goes
\* on to Export when it returned nil
ExportReached == pc = "extracted"

\* Export is called on the extracted model, the first time by the extract
\* command, later by a caller that runs it again on the unchanged model
Export ==
    /\ \/ ExportReached
       \/ pc = "exported" /\ runs < MaxRuns
    /\ runs' = runs + 1
    /\ before' = fs
    /\ written' = << >>
    /\ ei' = 1
    /\ pc' = IF Model = <<>> THEN "exported" ELSE "exportSchema"
    /\ exportErr' = Nil
    /\ UNCHANGED <<fs, todo, group, typeDir>>
    /\ UNCHANGED xvars

\* exportSchema up to the range over objectsByType
exportSchema ==
    /\ pc = "exportSchema"
    /\ LET s == Model[ei]
       IN \/ /\ ExportFail(<< <<"error creating schema directory: ">>, IOError >>)
             /\ UNCHANGED <<fs, todo, group, ei>>
          \/ /\ fs' = MkdirAll(fs, SchemaDir(s))
             /\ todo' = TypesOf(s)
             /\ group' = <<>>
             /\ Advance(<<>>, TypesOf(s))
    /\ UNCHANGED <<typeDir, runs, before, written>>
    /\ UNCHANGED xvars

\* one iteration of the range over objectsByType, up to its inner loop; the
\* order of a range over a map is not specified
exportType ==
    /\ pc = "exportType"
    /\ \E t \in todo :
        LET s == Model[ei]
        IN \/ /\ ExportFail(<< <<"error creating type directory: ">>, IOError >>)
              /\ UNCHANGED <<fs, todo, group, typeDir, ei>>
           \/ /\ fs' = MkdirAll(fs, TypeDir(s, t))
              /\ typeDir' = TypeDir(s, t)
              /\ todo' = todo \ {t}
              /\ group' = ObjectsByType(s, t)
              /\ pc' = "exportObject"
              /\ UNCHANGED <<ei, exportErr>>
    /\ UNCHANGED <<runs, before, written>>
    /\ UNCHANGED xvars

\* exportObject on the next object of the group. A write that fails writes
\* nothing of its text.
exportObject ==
    /\ pc = "exportObject"
    /\ LET obj == Head(group)
           path == FilePath(typeDir, obj)
           created == Create(fs, path)
           headed == WriteString(created, path, Header(obj))
           Wrap(err) == << <<"error exporting object ">> \o obj.Name \o <<": ">> >> \o err
       IN \/ /\ ExportFail(Wrap(<< <<"error creating file: ">>, IOError >>))
             /\ UNCHANGED <<fs, group, ei, written>>
          \/ /\ ExportFail(Wrap(<< <<"error writing header: ">>, IOError >>))
             /\ fs' = created
             /\ UNCHANGED <<group, ei, written>>
          \/ /\ ExportFail(Wrap(<< <<"error writing definition: ">>, IOError >>))
             /\ fs' = headed
             /\ UNCHANGED <<group, ei, written>>
          \/ /\ fs' = WriteString(headed, path, Definition(obj))
             /\ written' = (path :> (Header(obj) \o Definition(obj))) @@ written
             /\ group' = Tail(group)
             /\ Advance(Tail(group), todo)
    /\ UNCHANGED <<todo, typeDir, runs, before>>
    /\ UNCHANGED xvars

---------------------------------------------------------------------------
(* ExtractSchemas *)

Init ==
    /\ schemaNames \in SchemaLists
    /\ pc = "list"
    /\ si = 1
    /\ cat = "table"
    /\ lines = <<>>
    /\ objects = <<>>
    /\ functions = <<>>
    /\ schema = Schema(schemaNames[1])
    /\ schemas = <<>>
    /\ result = [schemas |-> Nil, err |-> Nil]
    /\ issued = <<>>
    /\ last = <<>>
    /\ fs \in InitialTrees
    /\ ei = 1
    /\ todo = {}
    /\ group = <<>>
    /\ typeDir = <<>>
    /\ exportErr = Nil
    /\ runs = 0
    /\ before = fs
    /\ written = << >>

\* execPsql is called with cmd; `line` is the listing line a definition
\* command is issued for
Issue(kind, c, cmd, line, ok) ==
    issued' = Append(issued, [kind |-> kind, cat |-> c, schema |-> schemaNames[si],
                              cmd |-> cmd, line |-> line, ok |-> ok])

ReturnPartial(err) == [schemas |-> schemas, err |-> err]

\* the model bound: a listing has no more lines than MaxRows less the
\* definition commands issued so far
Budget == MaxRows - Cardinality({ i \in 1..Len(issued) : issued[i].kind = "def" })

\* return nil, fmt.Errorf(...)
ReturnError(err) == [schemas |-> Nil, err |-> err]

Fail(c, err) ==
    /\ result' = ReturnError(WrapExtract(c, schemaNames[si], err))
    /\ pc' = "failed"

\* the listing command of an extract function
ListStep(c) ==
    /\ pc = "list" /\ cat = c
    /\ LET cmd == ListCmd(c, schemaNames[si])
       IN \/ /\ Issue("list", c, cmd, <<>>, FALSE)
             /\ Fail(c, WrapListing(c, psqlError))
             /\ UNCHANGED <<lines, objects>>
          \/ \E out \in ListingOutputs(c, schemaNames[si], Budget) :
                /\ Issue("list", c, cmd, <<>>, TRUE)
                /\ lines' = SplitLines(out)
                /\ objects' = <<>>
                /\ pc' = "rows"
                /\ UNCHANGED result
    /\ last' = <<>>
    /\ UNCHANGED <<schemaNames, si, cat, functions, schema, schemas>>
    /\ UNCHANGED evars

\* one iteration of the loop over the listing lines
LineStep(c) ==
    /\ pc = "rows" /\ cat = c /\ lines # <<>>
    /\ LET line == Head(lines)
           name == LineName(line)
           argTypes == LineArgTypes(c, line)
           cmd == DefCmd(c, schemaNames[si], name, argTypes)
       IN IF Skipped(c, line)
          THEN /\ lines' = Tail(lines)
               /\ UNCHANGED <<pc, objects, result, issued>>
          ELSE \/ /\ Issue("def", c, cmd, line, FALSE)
                  /\ Fail(c, WrapDefinition(c, name, argTypes, psqlError))
                  /\ UNCHANGED <<lines, objects>>
               \/ /\ Issue("def", c, cmd, line, TRUE)
                  /\ \E definition \in DefinitionOutputs(c, cmd) :
                        objects' = Append(objects,
                            Object(schemaNames[si], name, ObjType(c), definition))
                  /\ lines' = Tail(lines)
                  /\ UNCHANGED <<pc, result>>
    /\ last' = Head(lines)
    /\ UNCHANGED <<schemaNames, si, cat, functions, schema, schemas>>
    /\ UNCHANGED evars

PrependObjects(objs, more) == more \o objs

\* schema.Objects = append(schema.Objects, more...)
AppendObjects(objs, more) == objs \o more

NextCategory(c) ==
    CASE c = "table" -> "view"
      [] c = "view" -> "matview"
      [] c = "matview" -> "func"
      [] c = "func" -> "agg"

\* extractTables, extractViews, extractMaterializedViews return their objects
\* and ExtractSchemas appends them
ReturnObjects(c) ==
    /\ pc = "rows" /\ cat = c /\ lines = <<>>
    /\ c \in {"table", "view", "matview"}
    /\ schema' = [schema EXCEPT !.Objects = AppendObjects(@, objects)]
    /\ objects' = <<>>
    /\ cat' = NextCategory(c)
    /\ pc' = "list"
    /\ last' = <<>>
    /\ UNCHANGED <<schemaNames, si, lines, functions, schemas, result, issued>>
    /\ UNCHANGED evars

\* extractRegularFunctions returns to extractFunctions
ReturnRegular ==
    /\ pc = "rows" /\ cat = "func" /\ lines = <<>>
    /\ functions' = objects
    /\ objects' = <<>>
    /\ cat' = "agg"
    /\ pc' = "list"
    /\ last' = <<>>
    /\ UNCHANGED <<schemaNames, si, lines, schema, schemas, result, issued>>
    /\ UNCHANGED evars

\* extractAggregateFunctions returns, extractFunctions returns
\* append(functions, aggregates...), ExtractSchemas ends the schema
ReturnFunctions ==
    /\ pc = "rows" /\ cat = "agg" /\ lines = <<>>
    /\ LET done == [schema EXCEPT !.Objects =
                        AppendObjects(@, AppendObjects(functions, objects))]
       IN IF si < Len(schemaNames)
          THEN /\ schemas' = Append(schemas, done)
               /\ si' = si + 1
               /\ schema' = Schema(schemaNames[si + 1])
               /\ cat' = "table"
               /\ pc' = "list"
               /\ UNCHANGED result
          ELSE /\ schemas' = Append(schemas, done)
               /\ result' = [schemas |-> Append(schemas, done), err |-> Nil]
               /\ pc' = "extracted"
               /\ UNCHANGED <<si, schema, cat>>
    /\ objects' = <<>>
    /\ functions' = <<>>
    /\ last' = <<>>
    /\ UNCHANGED <<schemaNames, lines, issued>>
    /\ UNCHANGED evars

extractTables == ListStep("table") \/ LineStep("table") \/ ReturnObjects("table")

extractViews == ListStep("view") \/ LineStep("view") \/ ReturnObjects("view")

extractMaterializedViews ==
    ListStep("matview") \/ LineStep("matview") \/ ReturnObjects("matview")

extractRegularFunctions == ListStep("func") \/ LineStep("func") \/ ReturnRegular

extractAggregateFunctions == ListStep("agg") \/ LineStep("agg") \/ ReturnFunctions

ExtractSchemas ==
    \/ extractTables
    \/ extractViews
    \/ extractMaterializedViews
    \/ extractRegularFunctions
    \/ extractAggregateFunctions

Next ==
    \/ ExtractSchemas
    \/ Export
    \/ exportSchema
    \/ exportType
    \/ exportObject

Spec == Init /\ [][Next]_vars

---------------------------------------------------------------------------
(* Properties *)

\* ExtractSchemas has returned a schema list
Succeeded == pc \notin {"list", "rows", "failed"}

\* the objects of the returned model, schema after schema
ModelObjects == Flatten([k \in 1..Len(Model) |-> Model[k].Objects])

\* the definition commands that succeeded, in the order they were issued
OkDefs == SelectSeq(issued, LAMBDA e : e.kind = "def" /\ e.ok)

TypeRank(t) == CHOOSE i \in 1..Len(ObjectTypes) : ObjectTypes[i] = t

SystemNamespaces == {<<"pg_catalog">>, <<"information_schema">>}

LastIssued == issued[Len(issued)]

\* C1: in every Schema returned by a successful ExtractSchemas no object of
\* a later type (table, view, materialized_view, function) precedes an
\* object of an earlier type.
C1_TypeOrder ==
    Succeeded =>
        \A k \in 1..Len(Model) :
            LET objs == Model[k].Objects
            IN \A i, j \in 1..Len(objs) :
                i < j => TypeRank(objs[i].Type) <= TypeRank(objs[j].Type)

\* a returned Schema holds objects of two types
C1_Witness ==
    /\ Succeeded
    /\ \E k \in 1..Len(Model) :
        \E i, j \in 1..Len(Model[k].Objects) :
            Model[k].Objects[i].Type # Model[k].Objects[j].Type

\* C2: every listing being alphabetical by name, in every returned Schema
\* the objects of each type are in alphabetical order by name, those of
\* type function included.
C2_AlphabeticalWithinType ==
    Succeeded =>
        \A k \in 1..Len(Model) :
            LET objs == Model[k].Objects
            IN \A i, j \in 1..Len(objs) :
                (i < j /\ objs[i].Type = objs[j].Type)
                    => NameRank(objs[i].Name) <= NameRank(objs[j].Name)

\* C3: no definition command is issued for a listing line whose namespace
\* is pg_catalog or information_schema, and every Object of the returned
\* model is made of a line a definition command was issued for.
C3_NoSystemObjects ==
    /\ \A i \in 1..Len(issued) :
        issued[i].kind = "def" => TrimSpace(issued[i].line[1]) \notin SystemNamespaces
    /\ Succeeded =>
        /\ Len(ModelObjects) = Len(OkDefs)
        /\ \A i \in 1..Len(ModelObjects) :
            /\ ModelObjects[i].Schema = OkDefs[i].schema
            /\ ModelObjects[i].Name = TrimSpace(OkDefs[i].line[2])
            /\ ModelObjects[i].Definition \in DefinitionOutputs(OkDefs[i].cat, OkDefs[i].cmd)

\* the caller asked for pg_catalog, the loop has just read a full line of
\* that namespace, and extraction goes on
C3_Witness ==
    /\ pc = "rows"
    /\ schemaNames[si] = "pg_catalog"
    /\ Len(last) >= MinFields(cat)
    /\ last[1] = <<"pg_catalog">>
    /\ LastIssued.kind = "list"

\* C4: when a listing or definition command fails, ExtractSchemas returns
\* nil and an error, the failing command is the last one issued, and
\* nothing runs afterwards.
C4_FailureAborts ==
    pc = "failed" =>
        /\ result.schemas = Nil
        /\ result.err # Nil
        /\ ~LastIssued.ok
        /\ \A i \in 1..(Len(issued) - 1) : issued[i].ok
        /\ ~ENABLED Next

\* a command fails after an earlier schema was extracted, objects included
C4_Witness ==
    /\ pc = "failed"
    /\ schemas # <<>>
    /\ schemas[1].Objects # <<>>

\* C5: an error of ExtractSchemas names the schema and wraps the cause; for
\* a definition failure it names the object and, for a function, its
\* argument types; for a listing failure it names the category.
C5_ErrorContext ==
    pc = "failed" =>
        LET e == LastIssued
            msg == Message(result.err)
            word == CASE e.cat = "table" -> "tables"
                      [] e.cat = "view" -> "views"
                      [] e.cat = "matview" -> "materialized views"
                      [] e.cat = "func" -> "functions"
                      [] e.cat = "agg" -> "aggregate functions"
        IN /\ Contains(msg, <<" from schema ", e.schema, ": ">>)
           /\ Len(result.err) >= 2
           /\ result.err[Len(result.err)] = ExitError
           /\ e.kind = "list" => Contains(msg, <<"error listing ", word, ": ">>)
           /\ e.kind = "def" => Contains(msg, <<" definition for ">> \o TrimSpace(e.line[2]))
           /\ (e.kind = "def" /\ e.cat = "func") =>
                Contains(msg, TrimSpace(e.line[2]) \o <<"(">> \o TrimSpace(e.line[4]) \o <<")">>)
           /\ (e.kind = "def" /\ e.cat = "agg") =>
                Contains(msg, TrimSpace(e.line[2]) \o <<"(">> \o TrimSpace(e.line[3]) \o <<")">>)

\* the definition command of a regular function fails
C5_Witness ==
    /\ pc = "failed"
    /\ LastIssued.kind = "def"
    /\ LastIssued.cat = "func"

\* C6: each regular function of the returned model has the definition psql
\* gives for \sf with the argument types of its own listing line, and two
\* overloads of a name are two Objects with different definitions.
C6_OverloadDefinitions ==
    Succeeded =>
        /\ Len(ModelObjects) = Len(OkDefs)
        /\ \A i \in 1..Len(OkDefs) :
            OkDefs[i].cat = "func" =>
                /\ ModelObjects[i].Type = FunctionType
                /\ ModelObjects[i].Definition =
                    <<"CREATE OR REPLACE FUNCTION ", OkDefs[i].schema, ".">>
                        \o TrimSpace(OkDefs[i].line[2]) \o <<"(">>
                        \o TrimSpace(OkDefs[i].line[4]) \o <<")", "\n">>
        /\ \A i, j \in 1..Len(OkDefs) :
            (/\ i # j
             /\ OkDefs[i].cat = "func" /\ OkDefs[j].cat = "func"
             /\ TrimSpace(OkDefs[i].line[4]) # TrimSpace(OkDefs[j].line[4]))
                => ModelObjects[i].Definition # ModelObjects[j].Definition

\* a returned Schema holds two overloads of one function name
C6_Witness ==
    /\ Succeeded
    /\ \E k \in 1..Len(Model) :
        \E i, j \in 1..Len(Model[k].Objects) :
            /\ i # j
            /\ Model[k].Objects[i].Type = FunctionType
            /\ Model[k].Objects[j].Type = FunctionType
            /\ Model[k].Objects[i].Name = Model[k].Objects[j].Name
            /\ Model[k].Objects[i].Definition # Model[k].Objects[j].Definition

\* the function Objects of the model that belong to schema directory `name`
FunctionObjects(name) ==
    { <<k, i>> \in (1..Len(Model)) \X (1..MaxRows) :
        /\ Model[k].Name = name
        /\ i <= Len(Model[k].Objects)
        /\ Model[k].Objects[i].Type = FunctionType }

FilesUnder(dir) == { p \in DOMAIN fs.files : Under(dir, p) }

\* C7: after Export succeeds on an empty output directory, the number of
\* files under <schema>/function is the number of function Objects of the
\* model.
C7_OneFilePerFunction ==
    (pc = "exported" /\ before = EmptyTree) =>
        \A k \in 1..Len(Model) :
            Cardinality(FilesUnder(<<Model[k].Name, FunctionType>>))
                = Cardinality(FunctionObjects(Model[k].Name))

\* C8: when Export succeeds twice in a row on the same model, the output
\* directory after the second run is the one the first run left.
C8_Idempotent == (pc = "exported" /\ runs >= 2) => fs = before

\* Export succeeded twice on a model with two objects of one path
C8_Witness ==
    /\ pc = "exported"
    /\ runs >= 2
    /\ \E i, j \in 1..Len(ModelObjects) :
        /\ i # j
        /\ ModelObjects[i].Schema = ModelObjects[j].Schema
        /\ ModelObjects[i].Type = ModelObjects[j].Type
        /\ ModelObjects[i].Name = ModelObjects[j].Name
        /\ ModelObjects[i].Definition # ModelObjects[j].Definition

\* the paths <schema>/<type>/<name>.sql of the Objects of the model
ModelPaths ==
    { <<Model[k].Name, Model[k].Objects[i].Type, Model[k].Objects[i].Name \o <<".sql">>>> :
        <<k, i>> \in { <<k, i>> \in (1..Len(Model)) \X (1..MaxRows) :
                            i <= Len(Model[k].Objects) } }

\* C9: every file (and directory) present when Export began is present
\* during and after Export, whether it succeeds or fails, and a file that
\* is at the path of no Object of the model keeps its contents.
C9_NeverDeletes ==
    /\ before.dirs \subseteq fs.dirs
    /\ \A p \in DOMAIN before.files :
        /\ p \in DOMAIN fs.files
        /\ p \notin ModelPaths => fs.files[p] = before.files[p]

\* Export ended, well or not, after writing into a directory that held the
\* file of an object the model does not have
C9_Witness ==
    /\ pc \in {"exported", "exportFailed"}
    /\ <<"app", TableType, <<"old", ".sql">>>> \in DOMAIN before.files
    /\ <<"app", TableType, <<"old", ".sql">>>> \notin ModelPaths
    /\ Cardinality(FilesUnder(<<"app", TableType>>)) > 1
    /\ fs # before

\* C10: after Export succeeds, the file at the path of an Object is its
\* two header lines, a blank line and its trimmed definition, and ends in
\* exactly one ";" followed by a newline.
C10_FileFormat ==
    pc = "exported" =>
        \A p \in ModelPaths :
            /\ p \in DOMAIN fs.files
            /\ \E i \in 1..Len(ModelObjects) :
                LET o == ModelObjects[i]
                IN /\ p[3] = o.Name \o <<".sql">>
                   /\ fs.files[p] =
                        <<"-- Object: ", o.Schema, ".">> \o o.Name
                            \o <<"\n", "-- Type: ", o.Type, "\n", "\n">>
                            \o TrimSpace(o.Definition) \o <<";", "\n">>
            /\ LET text == fs.files[p]
                   n == Len(text)
               IN /\ n >= 3
                  /\ text[n] = "\n"
                  /\ text[n - 1] = ";"
                  /\ text[n - 2] # ";"

\* the step of Export that failed, read from the error it returned
FailedAt ==
    IF Contains(Message(exportErr), <<"error creating schema directory: ">>) THEN "schemaDir"
    ELSE IF Contains(Message(exportErr), <<"error creating type directory: ">>) THEN "typeDir"
    ELSE "file"

\* C11: when a directory creation or a file write fails, Export returns at
\* once with an error naming the schema (and the object, for a file): nothing
\* runs after the failing step, the schemas after the failing one are not
\* touched, and every file this Export wrote to the end is on disk with the
\* contents it was given.
C11_ExportFailure ==
    pc = "exportFailed" =>
        /\ Contains(Message(exportErr), <<"error exporting schema ", Model[ei].Name, ": ">>)
        /\ exportErr[Len(exportErr)] = IOError
        /\ FailedAt = "file" =>
            Contains(Message(exportErr), <<"error exporting object ">> \o Head(group).Name \o <<": ">>)
        /\ ~ENABLED Next
        /\ \A k \in (ei + 1)..Len(Model) :
            /\ <<Model[k].Name>> \in fs.dirs => <<Model[k].Name>> \in before.dirs
            /\ \A p \in DOMAIN fs.files :
                Under(<<Model[k].Name>>, p) => (p \in DOMAIN before.files /\ fs.files[p] = before.files[p])
        /\ \A p \in DOMAIN written :
            p \in DOMAIN fs.files /\ fs.files[p] = written[p]

\* the range over objectsByType taken in the one order table, view,
\* materialized_view, function
FixedOrder == <<TableType, ViewType, MaterializedView, FunctionType>>

RECURSIVE WriteGroup(_, _, _)
WriteGroup(tree, dir, objs) ==
    IF objs = <<>> THEN tree
    ELSE LET path == FilePath(dir, Head(objs))
             headed == WriteString(Create(tree, path), path, Header(Head(objs)))
         IN WriteGroup(WriteString(headed, path, Definition(Head(objs))), dir, Tail(objs))

RECURSIVE WriteTypes(_, _, _)
WriteTypes(tree, s, order) ==
    IF order = <<>> THEN tree
    ELSE LET t == Head(order)
             dir == TypeDir(s, t)
         IN WriteTypes(IF t \in TypesOf(s)
                       THEN WriteGroup(MkdirAll(tree, dir), dir, ObjectsByType(s, t))
                       ELSE tree,
                       s, Tail(order))

RECURSIVE WriteSchemas(_, _)
WriteSchemas(tree, ss) ==
    IF ss = <<>> THEN tree
    ELSE WriteSchemas(WriteTypes(MkdirAll(tree, SchemaDir(Head(ss))), Head(ss), FixedOrder),
                      Tail(ss))

\* C12: whatever order the range over the type groups takes, the tree a
\* successful Export leaves is the tree the one fixed order leaves.
C12_OrderIndependent ==
    pc = "exported" => fs = WriteSchemas(before, Model)

\* an Export that returned nil for a schema with objects of several types
C12_Witness ==
    /\ pc = "exported"
    /\ \E k \in 1..Len(Model) : Cardinality(TypesOf(Model[k])) >= 2
    /\ fs = WriteSchemas(before, Model)

\* a row of \da+ that names an aggregate of a namespace that is not a
\* system namespace
AggregateRow(line) ==
    /\ line # BlankLine
    /\ Len(line) >= 4
    /\ TrimSpace(line[1]) \notin SystemNamespaces

\* C13: an aggregate yields exactly one Object of type function. The
\* regular path issues no definition command for a row whose kind is not
\* func; the aggregate path answers each aggregate row with one
\* catalog-introspection query and, when it succeeds, one function Object;
\* and the returned model holds one function Object for each such query.
C13_AggregateOnce ==
    /\ \A i \in 1..Len(issued) :
        (issued[i].kind = "def" /\ issued[i].cat = "func") =>
            TrimSpace(issued[i].line[5]) = <<"func">>
    /\ (pc = "rows" /\ cat = "agg" /\ last # <<>> /\ AggregateRow(last)) =>
        /\ LastIssued.kind = "def" /\ LastIssued.cat = "agg" /\ LastIssued.ok
        /\ LastIssued.line = last
        /\ Contains(LastIssued.cmd, <<"' AND p.proname = '">> \o TrimSpace(last[2]) \o <<"' AND p.proargtypes::regtype[] = ARRAY[">>)
        /\ objects # <<>>
        /\ objects[Len(objects)].Type = FunctionType
        /\ objects[Len(objects)].Name = TrimSpace(last[2])
        /\ Len(objects) = Cardinality({ i \in 1..Len(issued) :
                /\ issued[i].kind = "def" /\ issued[i].cat = "agg"
                /\ issued[i].schema = schemaNames[si] })
    /\ Succeeded =>
        \A i \in 1..Len(OkDefs) :
            OkDefs[i].cat = "agg" =>
                /\ ModelObjects[i].Type = FunctionType
                /\ ModelObjects[i].Name = TrimSpace(OkDefs[i].line[2])
                /\ Len(ModelObjects) = Len(OkDefs)

\* the aggregate path has just turned the row of aggregate a into a function
\* Object, and the regular path of the same schema produced no Object of
\* that name
C13_Witness ==
    /\ pc = "rows" /\ cat = "agg"
    /\ last # <<>> /\ AggregateRow(last)
    /\ objects # <<>>
    /\ objects[Len(objects)].Type = FunctionType
    /\ objects[Len(objects)].Name = <<"a">>
    /\ functions # <<>>
    /\ \A i \in 1..Len(functions) : functions[i].Name # <<"a">>

\* C14: every Object of a returned Schema has a non-empty definition.
C14_NonEmptyDefinition ==
    Succeeded =>
        \A i \in 1..Len(ModelObjects) : TrimSpace(ModelObjects[i].Definition) # <<>>

\* the number of fields a row of each listing must have
RequiredFields(c) ==
    CASE c \in {"table", "view", "matview"} -> 6
      [] c = "func" -> 12
      [] c = "agg" -> 4

\* the highest column each parser reads: the name, the kind of a function,
\* the argument types of an aggregate
HighestColumnRead(c) ==
    CASE c \in {"table", "view", "matview"} -> 2
      [] c = "func" -> 5
      [] c = "agg" -> 3

TooShort(c, line) == line = BlankLine \/ Len(line) < RequiredFields(c)

\* C15: a blank row or a row with fewer fields than its listing requires is
\* skipped: no definition command is issued for it, no error is returned and
\* the loop goes on; every row a definition command was issued for has all
\* the columns its parser reads.
C15_ShortRowsSkipped ==
    /\ \A i \in 1..Len(issued) :
        issued[i].kind = "def" =>
            /\ ~TooShort(issued[i].cat, issued[i].line)
            /\ Len(issued[i].line) >= HighestColumnRead(issued[i].cat)
    /\ (last # <<>> /\ TooShort(cat, last)) =>
        /\ pc = "rows"
        /\ result.err = Nil
        /\ LastIssued.kind = "def" => LastIssued.line # last

\* the loop has just skipped a row that is too short and a full row follows
C15_Witness ==
    /\ pc = "rows"
    /\ last # <<>> /\ last # BlankLine /\ TooShort(cat, last)
    /\ lines # <<>>
    /\ ~TooShort(cat, Head(lines))

\* C16: Export starts only after ExtractSchemas returned nil for the whole
\* list. While extraction runs, and after it returned an error, Export has
\* not been called and cannot be, and the output tree is the tree the command
\* started with; an Export that was called has the Schema of every requested
\* name.
C16_ExportAfterExtraction ==
    /\ pc \in {"list", "rows", "failed"} =>
        /\ runs = 0
        /\ fs = before
        /\ exportErr = Nil
        /\ ~ENABLED Export
    /\ runs > 0 =>
        /\ result.err = Nil
        /\ Len(Model) = Len(schemaNames)
        /\ \A k \in 1..Len(Model) : Model[k].Name = schemaNames[k]

\* ExtractSchemas returned an error after it had extracted one schema with
\* objects, and the files that were in the output directory are still there
C16_Witness ==
    /\ pc = "failed"
    /\ schemas # <<>>
    /\ schemas[1].Objects # <<>>
    /\ fs = StaleTree
    /\ runs = 0

===========================================================================
